---------------------------- MODULE Spec2Model ----------------------------
(***************************************************************************)
(* The natural-language-to-SQL chat pipeline of the repository, in its     *)
(* three variants:                                                         *)
(*   "main"  - src/main.py,  FastAPI, POST /api/chat -> chat               *)
(*   "test2" - src/test2.py, FastAPI with the classifier in front          *)
(*   "test"  - src/test.py,  the Streamlit UI with the chat transcript     *)
(*                                                                         *)
(* Python strings on which the code does character work (strip, replace,   *)
(* startswith, upper, lower) are sequences of one-character strings.       *)
(* Python values that may be None, a str, a list or a dict are records     *)
(* tagged with their type in the field kind.                               *)
(***************************************************************************)
EXTENDS Integers, Sequences, FiniteSets, TLC

VARIABLES
    variant,        \* which program is running: "main", "test2" or "test"
    phase,          \* "import", "boot", "serving", or the error that ended the process:
                    \* "env_error", "llm_error", "startup_error"
    env,            \* os.environ after load_dotenv: each variable None, "" or a value
    db_up,          \* whether the database accepts the connection made at start-up
    llm_client,     \* the module-level llm: PyNone until ChatOpenAI(...) has returned
    engine,         \* the module-level engine handle: PyNone or an engine
    health_out,     \* the response of GET /health being sent, PyNone when there is none
    reqs,           \* per request slot: the handler's position and locals
    chat_history,   \* st.session_state.chat_history (src/test.py)
    llm_reply,      \* generator study: the outcome of llm.invoke
    gen_out,        \* generator study: what generate_sql_query returned
    ex_sql,         \* executor study: the SQL text handed to the executor
    ex_db,          \* executor study: how the driver answers
    ex_out          \* executor study: what execute_sql_query returned, and the driver calls it made

vars == <<variant, phase, env, db_up, llm_client, engine, health_out, reqs, chat_history,
          llm_reply, gen_out, ex_sql, ex_db, ex_out>>

-----------------------------------------------------------------------------
(* Bounds of the model *)

\* replies of the generator study are concatenations of at most MaxSegs segments
MaxSegs == 6
\* result sets have at most MaxCols columns and at most MaxRows rows
MaxCols == 2
MaxRows == 2
\* the transcript of the UI holds at most MaxHistory entries
MaxHistory == 2

-----------------------------------------------------------------------------
(* Python values *)

PyNone == [kind |-> "None"]
PyStr(s) == [kind |-> "str", val |-> s]
PyList(xs) == [kind |-> "list", val |-> xs]
\* a dict: its keys in insertion order and the value of each key
PyDict(ks, f) == [kind |-> "dict", keys |-> ks, at |-> f]

\* Python truthiness of the values above: None, "", [] and {} are falsy
Truthy(v) ==
    CASE v.kind = "None" -> FALSE
      [] v.kind = "str" -> Len(v.val) > 0
      [] v.kind = "list" -> Len(v.val) > 0
      [] v.kind = "dict" -> Len(v.keys) > 0
      [] OTHER -> TRUE

-----------------------------------------------------------------------------
(* str methods used by the code *)

IsSpace(c) == c \in {" ", "\n", "\t"}

RECURSIVE LStrip(_)
LStrip(s) ==
    IF s = <<>> THEN s
    ELSE IF IsSpace(Head(s)) THEN LStrip(Tail(s)) ELSE s

RECURSIVE RStrip(_)
RStrip(s) ==
    IF s = <<>> THEN s
    ELSE IF IsSpace(s[Len(s)]) THEN RStrip(SubSeq(s, 1, Len(s) - 1)) ELSE s

\* str.strip()
Strip(s) == RStrip(LStrip(s))

\* str.startswith(p)
StartsWith(s, p) == Len(s) >= Len(p) /\ SubSeq(s, 1, Len(p)) = p

\* str.replace(old, ""): the non-overlapping occurrences, found left to right
RECURSIVE Remove(_, _)
Remove(s, old) ==
    IF Len(s) < Len(old) THEN s
    ELSE IF StartsWith(s, old) THEN Remove(SubSeq(s, Len(old) + 1, Len(s)), old)
    ELSE <<Head(s)>> \o Remove(Tail(s), old)

\* whether old occurs in s (Python: old in s)
RECURSIVE Contains(_, _)
Contains(s, old) ==
    IF Len(s) < Len(old) THEN FALSE
    ELSE StartsWith(s, old) \/ Contains(Tail(s), old)

UpperChar(c) ==
    CASE c = "a" -> "A" [] c = "b" -> "B" [] c = "c" -> "C" [] c = "d" -> "D"
      [] c = "e" -> "E" [] c = "f" -> "F" [] c = "g" -> "G" [] c = "h" -> "H"
      [] c = "i" -> "I" [] c = "j" -> "J" [] c = "k" -> "K" [] c = "l" -> "L"
      [] c = "m" -> "M" [] c = "n" -> "N" [] c = "o" -> "O" [] c = "p" -> "P"
      [] c = "q" -> "Q" [] c = "r" -> "R" [] c = "s" -> "S" [] c = "t" -> "T"
      [] c = "u" -> "U" [] c = "v" -> "V" [] c = "w" -> "W" [] c = "x" -> "X"
      [] c = "y" -> "Y" [] c = "z" -> "Z"
      [] OTHER -> c

LowerChar(c) ==
    CASE c = "A" -> "a" [] c = "B" -> "b" [] c = "C" -> "c" [] c = "D" -> "d"
      [] c = "E" -> "e" [] c = "F" -> "f" [] c = "G" -> "g" [] c = "H" -> "h"
      [] c = "I" -> "i" [] c = "J" -> "j" [] c = "K" -> "k" [] c = "L" -> "l"
      [] c = "M" -> "m" [] c = "N" -> "n" [] c = "O" -> "o" [] c = "P" -> "p"
      [] c = "Q" -> "q" [] c = "R" -> "r" [] c = "S" -> "s" [] c = "T" -> "t"
      [] c = "U" -> "u" [] c = "V" -> "v" [] c = "W" -> "w" [] c = "X" -> "x"
      [] c = "Y" -> "y" [] c = "Z" -> "z"
      [] OTHER -> c

\* str.upper() and str.lower()
Upper(s) == [i \in 1..Len(s) |-> UpperChar(s[i])]
Lower(s) == [i \in 1..Len(s) |-> LowerChar(s[i])]

-----------------------------------------------------------------------------
(* The SQL generator *)

\* the backquote character (the lexer of TLA+ takes no backquote inside a string)
Backquote == "BACKQUOTE"
Fence == <<Backquote, Backquote, Backquote>>
FenceSql == <<Backquote, Backquote, Backquote, "s", "q", "l">>

\* an outcome of llm.invoke(prompt): a reply with its content, or an exception
LlmOk(content) == [kind |-> "ok", content |-> content]
LlmRaise(msg) == [kind |-> "raise", msg |-> msg]

\* generate_sql_query_main with the second replace forgotten: only the tagged fence goes
generate_sql_query_main_tagonly(llm) ==
    IF llm.kind = "raise" THEN PyNone
    ELSE LET sql_query == Strip(llm.content) IN
         IF StartsWith(sql_query, FenceSql)
         THEN PyStr(Strip(Remove(sql_query, FenceSql)))
         ELSE IF StartsWith(sql_query, Fence)
         THEN PyStr(Strip(Remove(sql_query, Fence)))
         ELSE PyStr(sql_query)

\* src/main.py: fences are removed only from a reply that starts with one
generate_sql_query_main(llm) ==
    IF llm.kind = "raise" THEN PyNone
    ELSE LET sql_query == Strip(llm.content) IN
         IF StartsWith(sql_query, FenceSql)
         THEN PyStr(Strip(Remove(Remove(sql_query, FenceSql), Fence)))
         ELSE IF StartsWith(sql_query, Fence)
         THEN PyStr(Strip(Remove(sql_query, Fence)))
         ELSE PyStr(sql_query)

\* src/test2.py: fences are removed wherever they are
generate_sql_query_test2(llm) ==
    IF llm.kind = "raise" THEN PyNone
    ELSE LET sql == Strip(llm.content) IN
         PyStr(Strip(Remove(Remove(sql, FenceSql), Fence)))

\* src/test.py: as main.py, but an exception becomes a text that starts with Error
generate_sql_query_test(llm) ==
    IF llm.kind = "raise"
    THEN PyStr(<<"E", "r", "r", "o", "r", " ", "g", "e", "n", "e", "r", "a", "t", "i", "n", "g",
                 " ", "S", "Q", "L", ":", " ">> \o llm.msg)
    ELSE LET sql_query == Strip(llm.content) IN
         IF StartsWith(sql_query, FenceSql)
         THEN PyStr(Strip(Remove(Remove(sql_query, FenceSql), Fence)))
         ELSE IF StartsWith(sql_query, Fence)
         THEN PyStr(Strip(Remove(sql_query, Fence)))
         ELSE PyStr(sql_query)

generate_sql_query(v, llm) ==
    CASE v = "main" -> generate_sql_query_main(llm)
      [] v = "test2" -> generate_sql_query_test2(llm)
      [] v = "test" -> generate_sql_query_test(llm)

-----------------------------------------------------------------------------
(* The database driver, as the executor sees it *)

Sql_SELECT_1 == <<"S", "E", "L", "E", "C", "T", " ", "1">>
Sql_select_1 == <<"s", "e", "l", "e", "c", "t", " ", "1">>
Sql_Select_1 == <<"S", "e", "l", "e", "c", "t", " ", "1">>
Sql_SELECT_INTO == <<"S", "E", "L", "E", "C", "T", " ", "1", " ", "I", "N", "T", "O", " ", "@", "v">>
Sql_UPDATE == <<"U", "P", "D", "A", "T", "E", " ", "t", " ", "S", "E", "T", " ", "a", "=", "1">>
Sql_update == <<"u", "p", "d", "a", "t", "e", " ", "t", " ", "S", "E", "T", " ", "a", "=", "1">>
Sql_DELETE == <<"D", "E", "L", "E", "T", "E", " ", "F", "R", "O", "M", " ", "t">>
Sql_SHOW == <<"S", "H", "O", "W", " ", "T", "A", "B", "L", "E", "S">>
Sql_WITH == <<"W", "I", "T", "H", " ", "c", " ", "A", "S", " ", "(", "S", "E", "L", "E", "C", "T", " ", "1", ")",
              " ", "S", "E", "L", "E", "C", "T", " ", "*", " ", "F", "R", "O", "M", " ", "c">>
Sql_SELEC == <<"S", "E", "L", "E", "C", " ", "1">>

\* the statements of the executor study, each also with leading white space
SqlStatements ==
    {Sql_SELECT_1, Sql_select_1, Sql_Select_1, Sql_SELECT_INTO, Sql_UPDATE, Sql_update,
     Sql_DELETE, Sql_SHOW, Sql_WITH, Sql_SELEC, <<>>}
\* SELECT 1 in every mix of upper and lower case
SelectInAnyCase ==
    {<<c1, c2, c3, c4, c5, c6, " ", "1">> :
        c1 \in {"S", "s"}, c2 \in {"E", "e"}, c3 \in {"L", "l"},
        c4 \in {"E", "e"}, c5 \in {"C", "c"}, c6 \in {"T", "t"}}
SqlTexts ==
    SqlStatements \cup SelectInAnyCase
                  \cup {<<" ">> \o s : s \in {Sql_SELECT_1, Sql_select_1, Sql_UPDATE, Sql_SHOW}}
                  \cup {<<"\n">> \o s \o <<"\n">> : s \in {Sql_SELECT_1, Sql_UPDATE}}

\* the first word of a statement, as the server reads it: white space skipped, upper case
RECURSIVE WordOf(_)
WordOf(s) ==
    IF s = <<>> \/ IsSpace(Head(s)) THEN <<>> ELSE <<Head(s)>> \o WordOf(Tail(s))
FirstKeyword(sql) == Upper(WordOf(LStrip(sql)))

\* what the server makes of a statement: "rows" (it returns a result set), "count" (it
\* returns an affected-row count only) or "invalid" (it is rejected)
StatementKind(sql) ==
    LET kw == FirstKeyword(sql) IN
    IF kw = <<"S", "E", "L", "E", "C", "T">>
    THEN IF Contains(Upper(sql), <<" ", "I", "N", "T", "O", " ">>) THEN "count" ELSE "rows"
    ELSE IF kw \in {<<"S", "H", "O", "W">>, <<"W", "I", "T", "H">>} THEN "rows"
    ELSE IF kw \in {<<"U", "P", "D", "A", "T", "E">>, <<"D", "E", "L", "E", "T", "E">>} THEN "count"
    ELSE "invalid"

\* exceptions: the class the except clauses tell apart, and str(e)
NoExc == [cls |-> "none"]
SqlError(msg) == [cls |-> "SQLAlchemyError", msg |-> msg]
OtherError(msg) == [cls |-> "Exception", msg |-> msg]
ExcMessages == {<<>>, <<"g", "o", "n", "e", " ", "a", "w", "a", "y">>}
Exceptions == {SqlError(<<"g", "o", "n", "e", " ", "a", "w", "a", "y">>)}
                  \cup {OtherError(m) : m \in ExcMessages}

\* result sets: column names (a name may repeat: SELECT a, a) and rows of values.
\* Values are non-NULL integers, which the DataFrame round trip returns as they are.
ColNames == {"a", "b"}
Values == {1, 2}
SeqsUpTo(S, n) == UNION {[1..k -> S] : k \in 0..n}
ResultSets ==
    UNION {{[columns |-> cols, rows |-> rs] : rs \in SeqsUpTo([1..Len(cols) -> Values], MaxRows)}
           : cols \in SeqsUpTo(ColNames, MaxCols) \ {<<>>}}

\* how the driver answers one executor call: whether connect, execute and commit
\* raise, and the result object of execute
DbAnswer(connect, execute, returns_rows, columns, rows, rowcount, commit) ==
    [connect |-> connect, execute |-> execute, returns_rows |-> returns_rows,
     columns |-> columns, rows |-> rows, rowcount |-> rowcount, commit |-> commit]

DbFailures ==
    {DbAnswer(e, NoExc, FALSE, <<>>, <<>>, 0, NoExc) : e \in Exceptions}
        \cup {DbAnswer(NoExc, e, FALSE, <<>>, <<>>, 0, NoExc) : e \in Exceptions}

\* the answers the server can give to a statement
DbAnswers(sql) ==
    DbFailures \cup
    (CASE StatementKind(sql) = "rows" ->
            {DbAnswer(NoExc, NoExc, TRUE, r.columns, r.rows, Len(r.rows), NoExc) : r \in ResultSets}
       [] StatementKind(sql) = "count" ->
            {DbAnswer(NoExc, NoExc, FALSE, <<>>, <<>>, n, c) :
                 n \in 0..MaxRows, c \in {NoExc} \cup Exceptions}
       [] OTHER -> {})

-----------------------------------------------------------------------------
(* The query executor *)

\* the keys of dict(zip(columns, row)): each name once, in order of first occurrence
RECURSIVE DictKeys(_)
DictKeys(cols) ==
    IF cols = <<>> THEN <<>>
    ELSE LET init == DictKeys(SubSeq(cols, 1, Len(cols) - 1))
             last == cols[Len(cols)] IN
         IF \E i \in 1..Len(init) : init[i] = last THEN init ELSE Append(init, last)

\* the position whose value dict(zip(columns, row)) keeps for key k: the last one
LastIndex(cols, k) == CHOOSE i \in 1..Len(cols) :
    cols[i] = k /\ \A j \in 1..Len(cols) : cols[j] = k => j <= i

\* pd.DataFrame(rows, columns=columns).to_dict(orient="records")
to_dict_records(columns, rows) ==
    [i \in 1..Len(rows) |->
        PyDict(DictKeys(columns),
               [k \in {columns[j] : j \in 1..Len(columns)} |-> rows[i][LastIndex(columns, k)]])]

\* IsSelectUpper without the strip()
IsSelectUpper_nostrip(sql_query) == StartsWith(Upper(sql_query), <<"S", "E", "L", "E", "C", "T">>)

\* if sql_query.strip().upper().startswith('SELECT')   (src/main.py, src/test.py)
IsSelectUpper(sql_query) == StartsWith(Upper(Strip(sql_query)), <<"S", "E", "L", "E", "C", "T">>)
\* if sql_query.strip().lower().startswith("select")   (src/test2.py)
IsSelectLower(sql_query) == StartsWith(Lower(Strip(sql_query)), <<"s", "e", "l", "e", "c", "t">>)

\* result.fetchall() on a result that returns no rows raises ResourceClosedError
NoRowsError == SqlError(<<"T", "h", "i", "s", " ", "r", "e", "s", "u", "l", "t", " ", "o", "b", "j",
                          "e", "c", "t", " ", "d", "o", "e", "s", " ", "n", "o", "t", " ", "r", "e",
                          "t", "u", "r", "n", " ", "r", "o", "w", "s", ".">>)

\* str(n) of an integer
Digit(d) == CASE d = 0 -> "0" [] d = 1 -> "1" [] d = 2 -> "2" [] d = 3 -> "3" [] d = 4 -> "4"
              [] d = 5 -> "5" [] d = 6 -> "6" [] d = 7 -> "7" [] d = 8 -> "8" [] d = 9 -> "9"
RECURSIVE NatToStr(_)
NatToStr(n) == IF n < 10 THEN <<Digit(n)>> ELSE NatToStr(n \div 10) \o <<Digit(n % 10)>>
IntToStr(n) == IF n < 0 THEN <<"-">> \o NatToStr(0 - n) ELSE NatToStr(n)

\* ExecuteBody with conn.commit() forgotten
ExecuteBody_nocommit(is_select, db, rows_value, count_value) ==
    IF db.connect # NoExc THEN [raised |-> db.connect, ops |-> <<"connect">>]
    ELSE IF db.execute # NoExc
    THEN [raised |-> db.execute, ops |-> <<"connect", "execute", "close">>]
    ELSE IF is_select
    THEN IF ~db.returns_rows
         THEN [raised |-> NoRowsError, ops |-> <<"connect", "execute", "fetchall", "close">>]
         ELSE [raised |-> NoExc, ret |-> rows_value,
               ops |-> <<"connect", "execute", "fetchall", "keys", "close">>]
    ELSE [raised |-> NoExc, ret |-> count_value, ops |-> <<"connect", "execute", "close">>]

\* ExecuteBody with the connection closed by hand at the end of the body, not by
\* a with statement: an exception leaves it open
ExecuteBody_leak(is_select, db, rows_value, count_value) ==
    IF db.connect # NoExc THEN [raised |-> db.connect, ops |-> <<"connect">>]
    ELSE IF db.execute # NoExc
    THEN [raised |-> db.execute, ops |-> <<"connect", "execute">>]
    ELSE IF is_select
    THEN IF ~db.returns_rows
         THEN [raised |-> NoRowsError, ops |-> <<"connect", "execute", "fetchall">>]
         ELSE [raised |-> NoExc, ret |-> rows_value,
               ops |-> <<"connect", "execute", "fetchall", "keys", "close">>]
    ELSE IF db.commit # NoExc
    THEN [raised |-> db.commit, ops |-> <<"connect", "execute", "commit">>]
    ELSE [raised |-> NoExc, ret |-> count_value,
          ops |-> <<"connect", "execute", "commit", "close">>]

\* the body of "with engine.connect() as conn": the value it returns or the exception
\* it raises, and the driver calls made; the with statement closes the connection
\* on both ways out. rows_value and count_value are what the variant returns.
ExecuteBody(is_select, db, rows_value, count_value) ==
    IF db.connect # NoExc THEN [raised |-> db.connect, ops |-> <<"connect">>]
    ELSE IF db.execute # NoExc
    THEN [raised |-> db.execute, ops |-> <<"connect", "execute", "close">>]
    ELSE IF is_select
    THEN IF ~db.returns_rows
         THEN [raised |-> NoRowsError, ops |-> <<"connect", "execute", "fetchall", "close">>]
         ELSE [raised |-> NoExc, ret |-> rows_value,
               ops |-> <<"connect", "execute", "fetchall", "keys", "close">>]
    ELSE IF db.commit # NoExc
    THEN [raised |-> db.commit, ops |-> <<"connect", "execute", "commit", "close">>]
    ELSE [raised |-> NoExc, ret |-> count_value,
          ops |-> <<"connect", "execute", "commit", "close">>]

ErrorDict(msg) == PyDict(<<"error">>, [k \in {"error"} |-> msg])
MessageDict(msg) == PyDict(<<"message">>, [k \in {"message"} |-> msg])

Text_SqlExecutionError == <<"S", "Q", "L", " ", "e", "x", "e", "c", "u", "t", "i", "o",
                            "n", " ", "e", "r", "r", "o", "r", ":", " ">>
Text_UnexpectedError == <<"U", "n", "e", "x", "p", "e", "c", "t", "e", "d", " ", "e",
                          "r", "r", "o", "r", ":", " ">>
Text_ExecutedSuccessfully == <<"Q", "u", "e", "r", "y", " ", "e", "x", "e", "c", "u",
                               "t", "e", "d", " ", "s", "u", "c", "c", "e", "s", "s",
                               "f", "u", "l", "l", "y", ".", " ", "R", "o", "w", "s",
                               " ", "a", "f", "f", "e", "c", "t", "e", "d", ":", " ">>
Text_Executed == <<"Q", "u", "e", "r", "y", " ", "e", "x", "e", "c", "u", "t", "e", "d",
                   ".", " ", "R", "o", "w", "s", " ", "a", "f", "f", "e", "c", "t", "e",
                   "d", ":", " ">>

\* src/main.py: the two except clauses prefix the message
execute_sql_query_main(sql_query, db) ==
    LET body == ExecuteBody(IsSelectUpper(sql_query), db,
                            PyList(to_dict_records(db.columns, db.rows)),
                            MessageDict(Text_ExecutedSuccessfully \o IntToStr(db.rowcount))) IN
    IF body.raised = NoExc THEN [ret |-> body.ret, ops |-> body.ops, caught |-> NoExc]
    ELSE IF body.raised.cls = "SQLAlchemyError"
    THEN [ret |-> ErrorDict(Text_SqlExecutionError \o body.raised.msg), ops |-> body.ops,
          caught |-> body.raised]
    ELSE [ret |-> ErrorDict(Text_UnexpectedError \o body.raised.msg), ops |-> body.ops,
          caught |-> body.raised]

\* execute_sql_query_test2 whose except clause returns nothing
execute_sql_query_test2_noreturn(sql_query, db) ==
    LET body == ExecuteBody(IsSelectLower(sql_query), db,
                            PyList(to_dict_records(db.columns, db.rows)),
                            MessageDict(Text_Executed \o IntToStr(db.rowcount))) IN
    IF body.raised = NoExc THEN [ret |-> body.ret, ops |-> body.ops, caught |-> NoExc]
    ELSE [ret |-> PyNone, ops |-> body.ops, caught |-> body.raised]

\* src/test2.py: one except clause, the message is str(e) as it is
execute_sql_query_test2(sql_query, db) ==
    LET body == ExecuteBody(IsSelectLower(sql_query), db,
                            PyList(to_dict_records(db.columns, db.rows)),
                            MessageDict(Text_Executed \o IntToStr(db.rowcount))) IN
    IF body.raised = NoExc THEN [ret |-> body.ret, ops |-> body.ops, caught |-> NoExc]
    ELSE [ret |-> ErrorDict(body.raised.msg), ops |-> body.ops, caught |-> body.raised]

\* src/test.py: a DataFrame for a SELECT, a str for everything else
execute_sql_query_test(sql_query, db) ==
    LET body == ExecuteBody(IsSelectUpper(sql_query), db,
                            [kind |-> "DataFrame", columns |-> db.columns, rows |-> db.rows],
                            PyStr(Text_ExecutedSuccessfully \o IntToStr(db.rowcount))) IN
    IF body.raised = NoExc THEN [ret |-> body.ret, ops |-> body.ops, caught |-> NoExc]
    ELSE IF body.raised.cls = "SQLAlchemyError"
    THEN [ret |-> PyStr(Text_SqlExecutionError \o body.raised.msg), ops |-> body.ops,
          caught |-> body.raised]
    ELSE [ret |-> PyStr(Text_UnexpectedError \o body.raised.msg), ops |-> body.ops,
          caught |-> body.raised]

execute_sql_query(v, sql_query, db) ==
    CASE v = "main" -> execute_sql_query_main(sql_query, db)
      [] v = "test2" -> execute_sql_query_test2(sql_query, db)
      [] v = "test" -> execute_sql_query_test(sql_query, db)

-----------------------------------------------------------------------------
(* The narrator, the classifier *)

Text_DbNotInitializedMain == <<"D", "a", "t", "a", "b", "a", "s", "e", " ", "c", "o", "n",
                               "n", "e", "c", "t", "i", "o", "n", " ", "n", "o", "t", " ",
                               "i", "n", "i", "t", "i", "a", "l", "i", "z", "e", "d", ".",
                               " ", "C", "h", "e", "c", "k", " ", "s", "e", "r", "v", "e",
                               "r", " ", "l", "o", "g", "s", " ", "f", "o", "r", " ", "d",
                               "e", "t", "a", "i", "l", "s", ".">>
Text_FailedToGenerateMain == <<"F", "a", "i", "l", "e", "d", " ", "t", "o", " ", "g", "e",
                               "n", "e", "r", "a", "t", "e", " ", "S", "Q", "L", " ", "q",
                               "u", "e", "r", "y">>
Text_ErrorGeneratingResponse == <<"E", "r", "r", "o", "r", " ", "g", "e", "n", "e", "r",
                                  "a", "t", "i", "n", "g", " ", "r", "e", "s", "p", "o",
                                  "n", "s", "e", ":", " ">>
Text_DbNotInitializedTest2 == <<"D", "B", " ", "n", "o", "t", " ", "i", "n", "i", "t", "i",
                                "a", "l", "i", "z", "e", "d", ".">>
Text_FailedToGenerateTest2 == <<"F", "a", "i", "l", "e", "d", " ", "t", "o", " ", "g", "e",
                                "n", "e", "r", "a", "t", "e", " ", "S", "Q", "L">>
Text_FailedToGenerateResponse == <<"F", "a", "i", "l", "e", "d", " ", "t", "o", " ", "g",
                                   "e", "n", "e", "r", "a", "t", "e", " ", "r", "e", "s",
                                   "p", "o", "n", "s", "e", ":", " ">>
Text_UnknownClassification == <<"U", "n", "k", "n", "o", "w", "n", " ", "c", "l", "a", "s",
                                "s", "i", "f", "i", "c", "a", "t", "i", "o", "n", " ", "r",
                                "e", "s", "u", "l", "t", ".">>
Text_greeting == <<"g", "r", "e", "e", "t", "i", "n", "g">>
Text_data_query == <<"d", "a", "t", "a", "_", "q", "u", "e", "r", "y">>
Text_unknown == <<"u", "n", "k", "n", "o", "w", "n">>

\* src/main.py and src/test.py: the reply as it is, or an error text
generate_natural_response_main(llm) ==
    IF llm.kind = "raise" THEN PyStr(Text_ErrorGeneratingResponse \o llm.msg)
    ELSE PyStr(llm.content)

\* src/test2.py: the reply stripped, or an error text (which starts with a cross mark)
generate_natural_response_test2(llm) ==
    IF llm.kind = "raise" THEN PyStr(<<"X", " ">> \o Text_FailedToGenerateResponse \o llm.msg)
    ELSE PyStr(Strip(llm.content))

generate_natural_response(v, llm) ==
    CASE v = "test2" -> generate_natural_response_test2(llm)
      [] OTHER -> generate_natural_response_main(llm)

\* src/test2.py: the reply stripped and lower-cased, or the label unknown
classification(llm) ==
    IF llm.kind = "raise" THEN Text_unknown ELSE Lower(Strip(llm.content))

-----------------------------------------------------------------------------
(* Requests *)

Reqs == {1, 2}

\* a request slot with no request in it; executed is the text execute_sql_query was
\* called with
IdleReq ==
    [pc |-> "idle", question |-> <<>>, label |-> <<>>, sql_query |-> PyNone,
     executed |-> PyNone, results |-> PyNone, response |-> PyNone, status |-> 0,
     detail |-> <<>>, body |-> PyNone, log |-> <<>>]

Engine1 == [kind |-> "Engine", id |-> 1]

\* the log of a request: the calls its handler makes and their returns, in order,
\* with the exceptions the called function caught
Called(rec, what) == [rec EXCEPT !.log = Append(@, what)]
\* a function that wraps llm.invoke in try/except returns
LlmReturned(rec, fn, llm) ==
    IF llm.kind = "raise" THEN Called(Called(rec, fn \o ".llm_raised"), fn \o ".ret")
    ELSE Called(rec, fn \o ".ret")
\* execute_sql_query returns
ExecuteReturned(rec, out) ==
    IF out.caught # NoExc
    THEN Called(Called(rec, "execute_sql_query.caught"), "execute_sql_query.ret")
    ELSE Called(rec, "execute_sql_query.ret")

\* raise HTTPException(status_code, detail)
HttpError(rec, status_code, detail) ==
    [rec EXCEPT !.pc = "failed", !.status = status_code, !.detail = detail]

\* return {"question": ..., "sql_query": ..., "results": ..., "response": ...}
Respond(rec, sql_query, results, response) ==
    [rec EXCEPT !.pc = "responded", !.status = 200,
                !.body = [kind |-> "dict", question |-> rec.question, sql_query |-> sql_query,
                          results |-> results, response |-> response]]

\* isinstance(x, dict) and "error" in x
HasErrorKey(x) == x.kind = "dict" /\ \E i \in 1..Len(x.keys) : x.keys[i] = "error"

(* src/main.py, chat: the handler between two outbound calls *)

\* chat_begin without the check of the engine
chat_begin_nocheck(rec, eng) ==
    Called([rec EXCEPT !.pc = "generating_sql"], "generate_sql_query.call")

chat_begin(rec, eng) ==
    IF ~Truthy(eng) THEN HttpError(rec, 500, Text_DbNotInitializedMain)
    ELSE Called([rec EXCEPT !.pc = "generating_sql"], "generate_sql_query.call")

\* chat_after_generate that asks the LLM again when generation failed
chat_after_generate_retry(rec, llm) ==
    LET sql_query == generate_sql_query_main(llm)
        r1 == [LlmReturned(rec, "generate_sql_query", llm) EXCEPT !.sql_query = sql_query] IN
    IF ~Truthy(sql_query) THEN Called(r1, "generate_sql_query.call")
    ELSE Called([r1 EXCEPT !.pc = "executing"], "execute_sql_query.call")

\* chat_after_generate that tests "sql_query is None"
chat_after_generate_isnone(rec, llm) ==
    LET sql_query == generate_sql_query_main(llm)
        r1 == [LlmReturned(rec, "generate_sql_query", llm) EXCEPT !.sql_query = sql_query] IN
    IF sql_query = PyNone THEN HttpError(r1, 500, Text_FailedToGenerateMain)
    ELSE Called([r1 EXCEPT !.pc = "executing"], "execute_sql_query.call")

chat_after_generate(rec, llm) ==
    LET sql_query == generate_sql_query_main(llm)
        r1 == [LlmReturned(rec, "generate_sql_query", llm) EXCEPT !.sql_query = sql_query] IN
    IF ~Truthy(sql_query) THEN HttpError(r1, 500, Text_FailedToGenerateMain)
    ELSE Called([r1 EXCEPT !.pc = "executing"], "execute_sql_query.call")

\* chat_after_execute without the check for an error descriptor
chat_after_execute_nocheck(rec, db) ==
    LET out == execute_sql_query_main(rec.sql_query.val, db)
        r1 == [ExecuteReturned(rec, out) EXCEPT !.results = out.ret,
                                                !.executed = PyStr(rec.sql_query.val)] IN
    Called([r1 EXCEPT !.pc = "narrating"], "generate_natural_response.call")

chat_after_execute(rec, db) ==
    LET out == execute_sql_query_main(rec.sql_query.val, db)
        query_results == out.ret
        r1 == [ExecuteReturned(rec, out) EXCEPT !.results = query_results,
                                                !.executed = PyStr(rec.sql_query.val)] IN
    IF HasErrorKey(query_results) THEN HttpError(r1, 500, query_results.at["error"])
    ELSE Called([r1 EXCEPT !.pc = "narrating"], "generate_natural_response.call")

\* chat_after_narrate that fails the request when the narrator's LLM call raised
chat_after_narrate_hard(rec, llm) ==
    LET natural_response == generate_natural_response_main(llm)
        r1 == [LlmReturned(rec, "generate_natural_response", llm)
                  EXCEPT !.response = natural_response] IN
    IF llm.kind = "raise" THEN HttpError(r1, 500, natural_response.val)
    ELSE Respond(r1, rec.sql_query, rec.results, natural_response)

chat_after_narrate(rec, llm) ==
    LET natural_response == generate_natural_response_main(llm)
        r1 == [LlmReturned(rec, "generate_natural_response", llm)
                  EXCEPT !.response = natural_response] IN
    Respond(r1, rec.sql_query, rec.results, natural_response)

(* src/test2.py, handle_classification and ask_database *)

ask_database_begin(rec, eng) ==
    IF eng = PyNone THEN HttpError(rec, 500, Text_DbNotInitializedTest2)
    ELSE Called([rec EXCEPT !.pc = "generating_sql"], "generate_sql_query.call")

\* ask_database_after_generate that calls the generator again until it succeeds
ask_database_after_generate_again(rec, llm) ==
    LET sql_query == generate_sql_query_test2(llm)
        r1 == [LlmReturned(rec, "generate_sql_query", llm) EXCEPT !.sql_query = sql_query] IN
    IF ~Truthy(sql_query) THEN Called(r1, "generate_sql_query.call")
    ELSE Called([r1 EXCEPT !.pc = "executing"], "execute_sql_query.call")

ask_database_after_generate(rec, llm) ==
    LET sql_query == generate_sql_query_test2(llm)
        r1 == [LlmReturned(rec, "generate_sql_query", llm) EXCEPT !.sql_query = sql_query] IN
    IF ~Truthy(sql_query) THEN HttpError(r1, 500, Text_FailedToGenerateTest2)
    ELSE Called([r1 EXCEPT !.pc = "executing"], "execute_sql_query.call")

\* isinstance(results, dict) and results.get("error"): the message must be truthy
ask_database_after_execute(rec, db) ==
    LET out == execute_sql_query_test2(rec.sql_query.val, db)
        results == out.ret
        r1 == [ExecuteReturned(rec, out) EXCEPT !.results = results,
                                                !.executed = PyStr(rec.sql_query.val)] IN
    IF HasErrorKey(results) /\ Len(results.at["error"]) > 0
    THEN HttpError(r1, 500, results.at["error"])
    ELSE Called([r1 EXCEPT !.pc = "narrating"], "generate_natural_response.call")

\* ask_database_after_narrate that returns the body without the SQL text
ask_database_after_narrate_nosql(rec, llm) ==
    LET response == generate_natural_response_test2(llm)
        r1 == [LlmReturned(rec, "generate_natural_response", llm) EXCEPT !.response = response] IN
    Respond(r1, PyNone, rec.results, response)

ask_database_after_narrate(rec, llm) ==
    LET response == generate_natural_response_test2(llm)
        r1 == [LlmReturned(rec, "generate_natural_response", llm) EXCEPT !.response = response] IN
    Respond(r1, rec.sql_query, rec.results, response)

\* handle_classification_begin that goes to ask_database without classifying
handle_classification_begin_skip(rec) ==
    Called([rec EXCEPT !.pc = "generating_sql"], "generate_sql_query.call")

handle_classification_begin(rec) ==
    Called([rec EXCEPT !.pc = "classifying"], "classification.call")

\* handle_classification_after_classify whose else branch runs the pipeline
handle_classification_after_classify_default(rec, llm, eng) ==
    LET classification_result == classification(llm)
        r1 == [LlmReturned(rec, "classification", llm) EXCEPT !.label = classification_result] IN
    IF classification_result = Text_greeting
    THEN Called([r1 EXCEPT !.pc = "greeting_reply"], "greeting_response.call")
    ELSE ask_database_begin(r1, eng)

handle_classification_after_classify(rec, llm, eng) ==
    LET classification_result == classification(llm)
        r1 == [LlmReturned(rec, "classification", llm) EXCEPT !.label = classification_result] IN
    IF classification_result = Text_greeting
    THEN Called([r1 EXCEPT !.pc = "greeting_reply"], "greeting_response.call")
    ELSE IF classification_result = Text_data_query
    THEN ask_database_begin(r1, eng)
    ELSE HttpError(r1, 400, Text_UnknownClassification)

\* handle_classification_after_greeting that goes on to ask_database after the reply
handle_classification_after_greeting_fallthrough(rec, llm) ==
    IF llm.kind = "raise"
    THEN [Called(rec, "greeting_response.raised") EXCEPT !.pc = "crashed", !.detail = llm.msg]
    ELSE LET r1 == Called([rec EXCEPT !.response = PyStr(Strip(llm.content))],
                          "greeting_response.ret") IN
         Called([r1 EXCEPT !.pc = "generating_sql"], "generate_sql_query.call")

\* greeting_response has no try: an exception of llm.invoke leaves the handler
handle_classification_after_greeting(rec, llm) ==
    IF llm.kind = "raise"
    THEN [Called(rec, "greeting_response.raised") EXCEPT !.pc = "crashed", !.detail = llm.msg]
    ELSE LET r1 == Called([rec EXCEPT !.response = PyStr(Strip(llm.content))],
                          "greeting_response.ret") IN
         Respond(r1, PyNone, PyNone, PyStr(Strip(llm.content)))
(* src/test.py, main: one run of the script after Send *)

Text_Error == <<"E", "r", "r", "o", "r">>
Text_IEncounteredAnError == <<"I", " ", "e", "n", "c", "o", "u", "n", "t", "e", "r", "e",
                              "d", " ", "a", "n", " ", "e", "r", "r", "o", "r", ":", " ">>
Text_ICouldntGenerate == <<"I", " ", "c", "o", "u", "l", "d", "n", "'", "t", " ", "g", "e",
                           "n", "e", "r", "a", "t", "e", " ", "a", " ", "p", "r", "o", "p",
                           "e", "r", " ", "S", "Q", "L", " ", "q", "u", "e", "r", "y", ".",
                           " ", "E", "r", "r", "o", "r", ":", " ">>

\* an entry of st.session_state.chat_history
HistoryEntry(user, assistant, sql_query, results) ==
    [kind |-> "dict", user |-> user, assistant |-> assistant, sql_query |-> sql_query,
     results |-> results]

\* chat_history.append(entry); st.rerun()
AppendAndRerun(rec, entry) == [rec EXCEPT !.pc = "rerun", !.body = entry]

\* main_begin that tests only st.button("Send")
main_begin_noblank(rec) ==
    Called([rec EXCEPT !.pc = "generating_sql"], "generate_sql_query.call")

\* if st.button("Send") and user_input.strip()
main_begin(rec) ==
    IF Strip(rec.question) = <<>> THEN [rec EXCEPT !.pc = "rendered"]
    ELSE Called([rec EXCEPT !.pc = "generating_sql"], "generate_sql_query.call")

\* main_after_generate that tests only "if sql_query"
main_after_generate_truthy(rec, llm) ==
    LET sql_query == generate_sql_query_test(llm)
        r1 == [LlmReturned(rec, "generate_sql_query", llm) EXCEPT !.sql_query = sql_query] IN
    IF Truthy(sql_query)
    THEN Called([r1 EXCEPT !.pc = "executing"], "execute_sql_query.call")
    ELSE AppendAndRerun(r1, HistoryEntry(rec.question,
                                         PyStr(Text_ICouldntGenerate \o sql_query.val),
                                         PyNone, PyNone))

main_after_generate(rec, llm) ==
    LET sql_query == generate_sql_query_test(llm)
        r1 == [LlmReturned(rec, "generate_sql_query", llm) EXCEPT !.sql_query = sql_query] IN
    IF Truthy(sql_query) /\ ~StartsWith(sql_query.val, Text_Error)
    THEN Called([r1 EXCEPT !.pc = "executing"], "execute_sql_query.call")
    ELSE AppendAndRerun(r1, HistoryEntry(rec.question,
                                         PyStr(Text_ICouldntGenerate \o sql_query.val),
                                         PyNone, PyNone))

\* f"I encountered an error: {query_results}": query_results is a str on this path
main_after_execute(rec, db) ==
    LET out == execute_sql_query_test(rec.sql_query.val, db)
        query_results == out.ret
        r1 == [ExecuteReturned(rec, out) EXCEPT !.results = query_results,
                                                !.executed = PyStr(rec.sql_query.val)] IN
    IF query_results.kind = "DataFrame"
    THEN Called([r1 EXCEPT !.pc = "narrating"], "generate_natural_response.call")
    ELSE AppendAndRerun(r1, HistoryEntry(rec.question,
                                         PyStr(Text_IEncounteredAnError \o query_results.val),
                                         rec.sql_query, PyNone))

main_after_narrate(rec, llm) ==
    LET natural_response == generate_natural_response_main(llm)
        r1 == [LlmReturned(rec, "generate_natural_response", llm)
                  EXCEPT !.response = natural_response] IN
    AppendAndRerun(r1, HistoryEntry(rec.question, natural_response, rec.sql_query, rec.results))

-----------------------------------------------------------------------------
(* The inputs of the pipeline *)

Variants == {"main", "test2", "test"}

Question_hi == <<"h", "i">>
Question_thanks == <<"t", "h", "a", "n", "k", "s", "!">>
Questions == {Question_hi, Question_thanks}
\* the text input of the UI may be blank
UiInputs == {Question_hi, <<" ">>}

Reply_fenced == FenceSql \o <<"\n">> \o Sql_SELECT_1 \o <<"\n">> \o Fence
Reply_prose_fenced == <<"S", "Q", "L", ":", " ">> \o Reply_fenced
TimeoutMsg == <<"t", "i", "m", "e", "o", "u", "t">>

\* outcomes of the generator's llm.invoke
GenOutcomes ==
    {LlmOk(Sql_SELECT_1), LlmOk(Reply_fenced), LlmOk(Reply_prose_fenced), LlmOk(Sql_UPDATE),
     LlmOk(Sql_SELECT_INTO), LlmOk(<<" ">>), LlmRaise(TimeoutMsg)}
\* outcomes of the narrator's and of the greeting reply's llm.invoke
TextOutcomes == {LlmOk(<<" ", "o", "k">>), LlmRaise(TimeoutMsg)}
\* outcomes of the classifier's llm.invoke
ClassifyOutcomes ==
    {LlmOk(Text_greeting), LlmOk(<<" ", "G", "r", "e", "e", "t", "i", "n", "g", "\n">>),
     LlmOk(Text_data_query), LlmOk(<<"\"">> \o Text_greeting \o <<"\"">>),
     LlmRaise(TimeoutMsg)}

\* the driver's answers in the pipeline: those of the executor study with result
\* sets of one column and at most one row
GoneAway == SqlError(<<"g", "o", "n", "e", " ", "a", "w", "a", "y">>)
PipelineDbAnswers(sql) ==
    {d \in DbAnswers(sql) :
        /\ d.connect \in {NoExc, GoneAway}
        /\ d.commit \in {NoExc, GoneAway}
        /\ d.execute \in {NoExc, GoneAway, OtherError(<<>>)}
        /\ d.columns \in {<<>>, <<"a">>}
        /\ Len(d.rows) <= 1
        /\ \A i \in 1..Len(d.rows) : d.rows[i] = <<1>>
        /\ d.rowcount <= 1}

-----------------------------------------------------------------------------
(* The pipeline: start-up and requests *)

\* the generator and executor studies are not running
NoStudy ==
    /\ llm_reply = PyNone
    /\ gen_out = [done |-> FALSE]
    /\ ex_sql = <<>>
    /\ ex_db = PyNone
    /\ ex_out = [done |-> FALSE]

(* The process environment and the module-level code run at import *)

EnvVars == {"OPENAI_API_KEY", "DB_HOST", "DB_PORT", "DB_USER", "DB_PASSWORD", "DB_NAME"}
\* the variables src/main.py validates, in the order of its list
RequiredVars == <<"OPENAI_API_KEY", "DB_USER", "DB_PASSWORD", "DB_NAME">>
\* what a variable can be in os.environ: absent, the empty string, a value
EnvUnset == PyNone
EnvEmpty == PyStr(<<>>)
EnvValue == PyStr(<<"v">>)
EnvAllSet == [var \in EnvVars |-> EnvValue]
\* the environments of the model: every variable set, or one of them unset or empty
Envs == {EnvAllSet} \cup {[EnvAllSet EXCEPT ![var] = x] : var \in EnvVars, x \in {EnvUnset, EnvEmpty}}

\* os.getenv(var): None for an absent variable. DB_HOST and DB_PORT are read with a
\* default and are not validated
getenv(e, var) == e[var]

\* missing_vars that takes only an absent variable as missing
missing_vars_unset_only(e) == SelectSeq(RequiredVars, LAMBDA var : getenv(e, var) = PyNone)

\* [var for var, value in [...] if not value]
missing_vars(e) == SelectSeq(RequiredVars, LAMBDA var : ~Truthy(getenv(e, var)))

LlmClient == [kind |-> "ChatOpenAI"]

\* create_db_engine: the engine when connect and SELECT 1 succeed, else None
create_db_engine(up) == IF up THEN Engine1 ELSE PyNone

\* health that reports whether the engine handle is set
health_checked ==
    IF engine = PyNone THEN [status |-> 503, body |-> [status |-> "unavailable"]]
    ELSE [status |-> 200, body |-> [status |-> "ok"]]

\* GET /health
health == [status |-> 200, body |-> [status |-> "ok"]]

Init ==
    /\ variant \in Variants
    /\ phase = "import"
    /\ env \in Envs
    /\ variant # "main" => env = EnvAllSet
    /\ db_up \in BOOLEAN
    /\ llm_client = PyNone
    /\ engine = PyNone
    /\ health_out = PyNone
    /\ reqs = [r \in Reqs |-> IdleReq]
    /\ chat_history = <<>>
    /\ NoStudy

study_vars == <<llm_reply, gen_out, ex_sql, ex_db, ex_out>>
host_vars == <<env, db_up, llm_client, health_out>>

\* src/main.py at import: the environment is read and validated, then the LLM
\* client is built; either may raise, and an exception at import ends the process
ImportMain ==
    /\ phase = "import"
    /\ variant = "main"
    /\ IF missing_vars(env) # <<>>
       THEN phase' = "env_error" /\ llm_client' = llm_client
       ELSE \/ phase' = "boot" /\ llm_client' = LlmClient
            \/ phase' = "llm_error" /\ llm_client' = llm_client
    /\ UNCHANGED <<variant, env, db_up, engine, health_out, reqs, chat_history, study_vars>>

\* src/test2.py at import: the LLM client is built from whatever the environment
\* holds; src/test.py builds nothing at import
ImportOther ==
    /\ phase = "import"
    /\ variant # "main"
    /\ \/ phase' = "boot" /\ llm_client' = IF variant = "test2" THEN LlmClient ELSE llm_client
       \/ variant = "test2" /\ phase' = "llm_error" /\ llm_client' = llm_client
    /\ UNCHANGED <<variant, env, db_up, engine, health_out, reqs, chat_history, study_vars>>

\* lifespan: engine = create_db_engine(); a missing engine is fatal
LifespanStartup ==
    /\ phase = "boot"
    /\ variant \in {"main", "test2"}
    /\ engine' = create_db_engine(db_up)
    /\ phase' = IF Truthy(engine') THEN "serving" ELSE "startup_error"
    /\ UNCHANGED <<variant, reqs, chat_history, study_vars, host_vars>>

\* src/main.py attaches the handler with "app.lifespan = lifespan", an attribute the
\* framework does not read: a host that does not enter the handler itself serves
\* with the handle still None
ServeWithoutLifespan ==
    /\ phase = "boot"
    /\ variant = "main"
    /\ phase' = "serving"
    /\ UNCHANGED <<variant, engine, reqs, chat_history, study_vars, host_vars>>

\* src/test.py: initialize_llm() and create_db_engine() return the client and the
\* engine, or st.stop() ends the run
UiStartup ==
    /\ phase = "boot"
    /\ variant = "test"
    /\ engine' = create_db_engine(db_up)
    /\ phase' = IF Truthy(engine') THEN "serving" ELSE "startup_error"
    /\ llm_client' = LlmClient
    /\ UNCHANGED <<variant, env, db_up, health_out, reqs, chat_history, study_vars>>

\* GET /health is answered while the process serves, whatever else is in flight
HealthRequest ==
    /\ phase = "serving"
    /\ variant \in {"main", "test2"}
    /\ health_out = PyNone
    /\ health_out' = health
    /\ UNCHANGED <<variant, phase, env, db_up, llm_client, engine, reqs, chat_history, study_vars>>

\* the response of GET /health has been sent
HealthRetire ==
    /\ health_out # PyNone
    /\ health_out' = PyNone
    /\ UNCHANGED <<variant, phase, env, db_up, llm_client, engine, reqs, chat_history, study_vars>>

\* a request arrives (POST /api/chat, or Send in the UI, where runs do not overlap)
Arrive(r, q) ==
    /\ phase = "serving"
    /\ reqs[r].pc = "idle"
    /\ variant = "test" => /\ q \in UiInputs
                           /\ \A o \in Reqs : reqs[o].pc = "idle"
                           /\ Len(chat_history) < MaxHistory
    /\ variant # "test" => q \in Questions
    /\ reqs' = [reqs EXCEPT ![r] = Called([IdleReq EXCEPT !.pc = "received", !.question = q],
                                          "received")]
    /\ UNCHANGED <<variant, phase, engine, chat_history, study_vars, host_vars>>

\* Step for a handler that keeps sql_query in a module-level variable: what one
\* request assigns, every request in flight sees
Step_shared(r, rec) ==
    /\ reqs' = [o \in Reqs |->
                  IF o = r THEN rec
                  ELSE IF reqs[o].pc \in {"generating_sql", "executing", "narrating"}
                  THEN [reqs[o] EXCEPT !.sql_query = rec.sql_query]
                  ELSE reqs[o]]
    /\ chat_history' = IF rec.pc = "rerun" THEN Append(chat_history, rec.body) ELSE chat_history
    /\ UNCHANGED <<variant, phase, engine, study_vars, host_vars>>

\* the handler runs up to the request's next outbound call, or to its end
Step(r, rec) ==
    /\ reqs' = [reqs EXCEPT ![r] = rec]
    /\ chat_history' = IF rec.pc = "rerun" THEN Append(chat_history, rec.body) ELSE chat_history
    /\ UNCHANGED <<variant, phase, engine, study_vars, host_vars>>

Begin(r) ==
    /\ reqs[r].pc = "received"
    /\ Step(r, CASE variant = "main" -> chat_begin(reqs[r], engine)
                 [] variant = "test2" -> handle_classification_begin(reqs[r])
                 [] variant = "test" -> main_begin(reqs[r]))

ClassifyReturns(r, llm) ==
    /\ reqs[r].pc = "classifying"
    /\ Step(r, handle_classification_after_classify(reqs[r], llm, engine))

GreetingReturns(r, llm) ==
    /\ reqs[r].pc = "greeting_reply"
    /\ Step(r, handle_classification_after_greeting(reqs[r], llm))

GenerateReturns(r, llm) ==
    /\ reqs[r].pc = "generating_sql"
    /\ Step(r, CASE variant = "main" -> chat_after_generate(reqs[r], llm)
                 [] variant = "test2" -> ask_database_after_generate(reqs[r], llm)
                 [] variant = "test" -> main_after_generate(reqs[r], llm))

ExecuteReturns(r) ==
    /\ reqs[r].pc = "executing"
    /\ \E db \in PipelineDbAnswers(reqs[r].sql_query.val) :
       Step(r, CASE variant = "main" -> chat_after_execute(reqs[r], db)
                 [] variant = "test2" -> ask_database_after_execute(reqs[r], db)
                 [] variant = "test" -> main_after_execute(reqs[r], db))

NarrateReturns(r, llm) ==
    /\ reqs[r].pc = "narrating"
    /\ Step(r, CASE variant = "main" -> chat_after_narrate(reqs[r], llm)
                 [] variant = "test2" -> ask_database_after_narrate(reqs[r], llm)
                 [] variant = "test" -> main_after_narrate(reqs[r], llm))

\* the response has been sent: the slot is free for the next request
Retire(r) ==
    /\ reqs[r].pc \in {"responded", "failed", "crashed", "rerun", "rendered"}
    /\ reqs' = [reqs EXCEPT ![r] = IdleReq]
    /\ UNCHANGED <<variant, phase, engine, chat_history, study_vars, host_vars>>

Next ==
    \/ ImportMain
    \/ ImportOther
    \/ LifespanStartup
    \/ ServeWithoutLifespan
    \/ UiStartup
    \/ \E r \in Reqs, q \in Questions \cup UiInputs : Arrive(r, q)
    \/ \E r \in Reqs : Begin(r)
    \/ \E r \in Reqs, llm \in ClassifyOutcomes : ClassifyReturns(r, llm)
    \/ \E r \in Reqs, llm \in TextOutcomes : GreetingReturns(r, llm)
    \/ \E r \in Reqs, llm \in GenOutcomes : GenerateReturns(r, llm)
    \/ \E r \in Reqs : ExecuteReturns(r)
    \/ \E r \in Reqs, llm \in TextOutcomes : NarrateReturns(r, llm)
    \/ \E r \in Reqs : Retire(r)
    \/ HealthRequest
    \/ HealthRetire

Spec == Init /\ [][Next]_vars

\* a step of request r other than the return of the executor: its handler starts,
\* or the LLM call it waits for returns or raises and the handler runs on. At most
\* one of these is enabled.
Advance(r) ==
    \/ Begin(r)
    \/ \E llm \in ClassifyOutcomes : ClassifyReturns(r, llm)
    \/ \E llm \in TextOutcomes : GreetingReturns(r, llm)
    \/ \E llm \in GenOutcomes : GenerateReturns(r, llm)
    \/ \E llm \in TextOutcomes : NarrateReturns(r, llm)

\* every outbound call of a request in flight eventually returns or raises, and the
\* handler, once entered or resumed, runs on. ExecuteReturns(r) is enabled exactly
\* while the request is in the executing stage (the driver always has an answer) and
\* every such step leaves the stage, so its weak fairness is that the request is
\* again and again not in that stage.
CallsReturn ==
    \A r \in Reqs :
        /\ WF_vars(Advance(r))
        /\ []<>(reqs[r].pc # "executing")

SpecLive == Spec /\ CallsReturn

-----------------------------------------------------------------------------
(* The generator study: generate_sql_query on every reply of a bounded set *)

\* the pieces replies are made of: a fence, a single backquote, the tag after a
\* fence, white space, a query
Segments == {Fence, <<Backquote>>, <<"s", "q", "l">>, <<" ">>, Sql_SELECT_1}

RECURSIVE Concats(_)
Concats(n) ==
    IF n = 0 THEN {<<>>}
    ELSE LET shorter == Concats(n - 1) IN
         shorter \cup {s \o g : s \in shorter, g \in Segments}

Replies == Concats(MaxSegs) \cup {Reply_fenced, Reply_prose_fenced}

NotRun == [done |-> FALSE]
Returned(v) == [done |-> TRUE, ret |-> v]

NoPipeline ==
    /\ phase = "study"
    /\ env = EnvAllSet
    /\ db_up = FALSE
    /\ llm_client = PyNone
    /\ engine = PyNone
    /\ health_out = PyNone
    /\ reqs = [r \in Reqs |-> IdleReq]
    /\ chat_history = <<>>

InitGen ==
    /\ variant \in {"main", "test2"}
    /\ NoPipeline
    /\ llm_reply \in {LlmOk(r) : r \in Replies} \cup {LlmRaise(TimeoutMsg)}
    /\ gen_out = NotRun
    /\ ex_sql = <<>>
    /\ ex_db = PyNone
    /\ ex_out = NotRun

GenerateStudy ==
    /\ gen_out = NotRun
    /\ gen_out' = Returned(generate_sql_query(variant, llm_reply))
    /\ UNCHANGED <<variant, phase, engine, reqs, chat_history, llm_reply, ex_sql, ex_db, ex_out, host_vars>>

NextGen == GenerateStudy

SpecGen == InitGen /\ [][NextGen]_vars

-----------------------------------------------------------------------------
(* The executor study: execute_sql_query on every statement and driver answer *)

InitExec ==
    /\ variant \in {"main", "test2"}
    /\ NoPipeline
    /\ llm_reply = PyNone
    /\ gen_out = NotRun
    /\ ex_sql \in SqlTexts
    /\ ex_db \in DbAnswers(ex_sql)
    /\ ex_out = NotRun

ExecuteStudy ==
    /\ ex_out = NotRun
    /\ ex_out' = LET out == execute_sql_query(variant, ex_sql, ex_db) IN
                  [done |-> TRUE, ret |-> out.ret, ops |-> out.ops, caught |-> out.caught]
    /\ UNCHANGED <<variant, phase, engine, reqs, chat_history, llm_reply, gen_out, ex_sql, ex_db, host_vars>>

NextExec == ExecuteStudy

SpecExec == InitExec /\ [][NextExec]_vars

-----------------------------------------------------------------------------
(* Properties *)

Count(log, e) == Cardinality({i \in 1..Len(log) : log[i] = e})
Logged(rec, e) == \E i \in 1..Len(rec.log) : rec.log[i] = e
\* every b in the log has an a before it
Before(log, a, b) == \A i \in 1..Len(log) : log[i] = b => \E j \in 1..(i - 1) : log[j] = a

EndsWith(s, p) == Len(s) >= Len(p) /\ SubSeq(s, Len(s) - Len(p) + 1, Len(s)) = p

\* C1: within one request of chat (main.py) or ask_database (test2.py) the SQL
\* generator, the executor and the narrator are each called at most once, the
\* executor only after generate_sql_query has returned and the narrator only after
\* execute_sql_query has returned.
C1_StagesInOrder ==
    variant \in {"main", "test2"} =>
        \A r \in Reqs :
            LET log == reqs[r].log IN
            /\ Count(log, "generate_sql_query.call") <= 1
            /\ Count(log, "execute_sql_query.call") <= 1
            /\ Count(log, "generate_natural_response.call") <= 1
            /\ Before(log, "generate_sql_query.call", "generate_sql_query.ret")
            /\ Before(log, "generate_sql_query.ret", "execute_sql_query.call")
            /\ Before(log, "execute_sql_query.call", "execute_sql_query.ret")
            /\ Before(log, "execute_sql_query.ret", "generate_natural_response.call")

C1_Witness ==
    /\ variant = "main"
    /\ \E r \in Reqs :
          /\ reqs[r].pc = "responded"
          /\ Logged(reqs[r], "generate_natural_response.ret")
          /\ \E o \in Reqs : o # r /\ reqs[o].pc = "executing"

\* C2: when the LLM call inside SQL generation raises, generate_sql_query returns
\* its error signal (None in main.py and test2.py, a text that starts with Error in
\* test.py) and the request ends there: the executor and the narrator are not
\* called for it.
C2_GenerationFailureStops ==
    \A r \in Reqs :
        Logged(reqs[r], "generate_sql_query.llm_raised") =>
            /\ ~Logged(reqs[r], "execute_sql_query.call")
            /\ ~Logged(reqs[r], "generate_natural_response.call")
            /\ variant \in {"main", "test2"} =>
                  /\ reqs[r].sql_query = PyNone
                  /\ reqs[r].pc = "failed"
                  /\ reqs[r].status = 500
            /\ variant = "test" =>
                  /\ StartsWith(reqs[r].sql_query.val, Text_Error)
                  /\ reqs[r].pc = "rerun"

C2_Witness ==
    /\ variant = "test"
    /\ \E r \in Reqs :
          /\ Logged(reqs[r], "generate_sql_query.llm_raised")
          /\ reqs[r].pc = "rerun"
          /\ Len(chat_history) = 2

\* what the executor's output carries
CarriesResults(x) ==
    \/ x.kind = "list"
    \/ x.kind = "dict" /\ \E i \in 1..Len(x.keys) : x.keys[i] = "message"
CarriesError(x) == x.kind = "dict" /\ \E i \in 1..Len(x.keys) : x.keys[i] = "error"

\* C3: the output of execute_sql_query (main.py, test2.py) carries results (the row
\* mappings or the status record) or an error descriptor, never both and never
\* neither.
C3_ExactlyOneOfResultsError ==
    ex_out.done =>
        /\ CarriesResults(ex_out.ret) \/ CarriesError(ex_out.ret)
        /\ ~(CarriesResults(ex_out.ret) /\ CarriesError(ex_out.ret))

C3_Witness ==
    /\ ex_out.done
    /\ variant = "test2"
    /\ ex_db.commit # NoExc
    /\ ex_out.caught = ex_db.commit
    /\ CarriesError(ex_out.ret)

\* the first characters of sql that are not white space are SELECT, in any letter case
BeginsWithSelect(sql) ==
    \E k \in 0..Len(sql) :
        /\ \A i \in 1..k : IsSpace(sql[i])
        /\ Len(sql) >= k + 6
        /\ \A i \in 1..6 : UpperChar(sql[k + i]) = <<"S", "E", "L", "E", "C", "T">>[i]

FirstIndex(cols, k) == CHOOSE i \in 1..Len(cols) :
    cols[i] = k /\ \A j \in 1..Len(cols) : cols[j] = k => i <= j

SelectSucceeded == ex_out.done /\ BeginsWithSelect(ex_sql) /\ ex_out.caught = NoExc

FetchedNotCommitted ==
    /\ Count(ex_out.ops, "fetchall") = 1
    /\ Count(ex_out.ops, "commit") = 0
    /\ ex_out.ret.kind = "list"
    /\ Len(ex_out.ret.val) = Len(ex_db.rows)

\* C4 as stated: a SELECT that raises nothing is fetched, not committed, and gives
\* one mapping per row, in row order, each with exactly one entry per column of the
\* result set, in column order.
C4_OneEntryPerColumn ==
    SelectSucceeded =>
        /\ FetchedNotCommitted
        /\ \A i \in 1..Len(ex_db.rows) :
              /\ ex_out.ret.val[i].keys = ex_db.columns
              /\ \A j \in 1..Len(ex_db.columns) :
                    ex_out.ret.val[i].at[ex_db.columns[j]] = ex_db.rows[i][j]

\* C4, amended: a SELECT that raises nothing is fetched, not committed, and gives one
\* mapping per row, in row order, each with one entry per distinct column name, in
\* order of first appearance, holding the value of the last column of that name (so
\* one entry per column, in column order, when no column name repeats).
C4_OneEntryPerColumnName ==
    SelectSucceeded =>
        /\ FetchedNotCommitted
        /\ \A i \in 1..Len(ex_db.rows) :
              LET ks == ex_out.ret.val[i].keys
                  cols == ex_db.columns IN
              /\ \A a, b \in 1..Len(ks) : a # b => ks[a] # ks[b]
              /\ {ks[a] : a \in 1..Len(ks)} = {cols[j] : j \in 1..Len(cols)}
              /\ \A a, b \in 1..Len(ks) : a < b => FirstIndex(cols, ks[a]) < FirstIndex(cols, ks[b])
              /\ \A j \in 1..Len(cols) :
                    (\A j2 \in (j + 1)..Len(cols) : cols[j2] # cols[j])
                        => ex_out.ret.val[i].at[cols[j]] = ex_db.rows[i][j]
              /\ (\A a, b \in 1..Len(cols) : a # b => cols[a] # cols[b]) => ks = cols

C4_Witness ==
    /\ SelectSucceeded
    /\ ex_sql = <<" ">> \o Sql_select_1
    /\ ex_db.columns = <<"a", "a">>
    /\ ex_db.rows = << <<1, 2>>, <<2, 1>> >>
    /\ ex_out.ret.val[1].at["a"] = 2

\* C5: a statement that does not begin with SELECT and raises nothing is committed
\* exactly once and not fetched, and the executor returns one status record whose
\* text ends with the affected-row count.
C5_WriteCommitsAndReportsCount ==
    (ex_out.done /\ ~BeginsWithSelect(ex_sql) /\ ex_out.caught = NoExc) =>
        /\ Count(ex_out.ops, "commit") = 1
        /\ Count(ex_out.ops, "fetchall") = 0
        /\ ex_out.ret.kind = "dict"
        /\ ex_out.ret.keys = <<"message">>
        /\ EndsWith(ex_out.ret.at["message"], <<":", " ">> \o IntToStr(ex_db.rowcount))

C5_Witness ==
    /\ ex_out.done
    /\ ex_sql = Sql_UPDATE
    /\ ex_out.caught = NoExc
    /\ ex_db.rowcount = 2
    /\ Count(ex_out.ops, "commit") = 1

\* C6 as stated: the shape of the executor's result follows the kind of statement: a
\* statement that returned a result set, whatever its first keyword, yields the row
\* mappings and is not committed; a write yields the status record; an exception
\* yields the error descriptor.
C6_ShapeFollowsStatementKind ==
    ex_out.done =>
        /\ (ex_out.caught = NoExc /\ ex_db.returns_rows) =>
              /\ ex_out.ret.kind = "list"
              /\ Count(ex_out.ops, "commit") = 0
        /\ (ex_out.caught = NoExc /\ ~ex_db.returns_rows) =>
              /\ ex_out.ret.kind = "dict"
              /\ ex_out.ret.keys = <<"message">>
        /\ ex_out.caught # NoExc => CarriesError(ex_out.ret)

\* a reply that is a query in a fence: after white space it opens with a fence,
\* tagged sql or not, and closes with a fence
OpeningFence(s) == IF StartsWith(s, FenceSql) THEN FenceSql ELSE Fence
IsWrapped(content) ==
    LET s == Strip(content) IN
    /\ StartsWith(s, Fence)
    /\ EndsWith(s, Fence)
    /\ Len(s) >= Len(OpeningFence(s)) + Len(Fence)
Inner(content) ==
    LET s == Strip(content) IN SubSeq(s, Len(OpeningFence(s)) + 1, Len(s) - Len(Fence))

\* C7 as stated: for every reply that is a query wrapped in a fence,
\* generate_sql_query (main.py, test2.py) returns the inner text, trimmed.
C7_ReturnsInnerText ==
    (gen_out.done /\ llm_reply.kind = "ok" /\ IsWrapped(llm_reply.content)) =>
        gen_out.ret = PyStr(Strip(Inner(llm_reply.content)))

\* C7, amended: for every reply that is a query wrapped in a fence, with no further
\* fence inside the query (and, in test2.py, no tagged fence but at the very start),
\* generate_sql_query returns the inner text, trimmed, and the handler enters the
\* executing stage with exactly that text.
C7_ReturnsInnerTextOfFenceFreeQuery ==
    (/\ gen_out.done
     /\ llm_reply.kind = "ok"
     /\ IsWrapped(llm_reply.content)
     /\ ~Contains(Inner(llm_reply.content), Fence)
     /\ variant = "test2" => ~Contains(Tail(Strip(llm_reply.content)), FenceSql)) =>
        /\ gen_out.ret = PyStr(Strip(Inner(llm_reply.content)))
        /\ LET rec == [IdleReq EXCEPT !.pc = "generating_sql"]
               next == IF variant = "main" THEN chat_after_generate(rec, llm_reply)
                       ELSE ask_database_after_generate(rec, llm_reply) IN
           /\ next.sql_query = gen_out.ret
           /\ Truthy(gen_out.ret) => next.pc = "executing"

C7_Witness ==
    /\ gen_out.done
    /\ llm_reply = LlmOk(Reply_fenced)
    /\ gen_out.ret = PyStr(Sql_SELECT_1)
    /\ variant = "main"

\* C8 as stated: whatever the reply, the text main.py's generate_sql_query returns has
\* no white space at either end and no fence in it.
C8_ReturnsNoFence ==
    (variant = "main" /\ gen_out.done /\ gen_out.ret # PyNone) =>
        /\ gen_out.ret.val = Strip(gen_out.ret.val)
        /\ ~Contains(gen_out.ret.val, Fence)

\* C9: in main.py an exception raised by connect, execute, fetchall or commit is
\* caught in execute_sql_query and returned as an error descriptor; chat ends the
\* request with HTTP 500 whose detail is the descriptor's message and does not call
\* the narrator.
C9_ExecutionErrorIs500 ==
    variant = "main" =>
        \A r \in Reqs :
            Logged(reqs[r], "execute_sql_query.caught") =>
                /\ CarriesError(reqs[r].results)
                /\ reqs[r].pc = "failed"
                /\ reqs[r].status = 500
                /\ reqs[r].detail = reqs[r].results.at["error"]
                /\ reqs[r].body = PyNone
                /\ ~Logged(reqs[r], "generate_natural_response.call")

C9_Witness ==
    /\ variant = "main"
    /\ \E r \in Reqs :
          /\ Logged(reqs[r], "execute_sql_query.caught")
          /\ reqs[r].sql_query = PyStr(Sql_UPDATE)
          /\ reqs[r].status = 500

\* C10: in main.py, when the narrator's LLM call raises after a successful execution,
\* generate_natural_response returns an error text and chat answers 200 with that
\* text as response and with question, sql_query and results as on success.
C10_NarratorFailureIs200 ==
    variant = "main" =>
        \A r \in Reqs :
            Logged(reqs[r], "generate_natural_response.llm_raised") =>
                /\ reqs[r].pc = "responded"
                /\ reqs[r].status = 200
                /\ reqs[r].response = PyStr(Text_ErrorGeneratingResponse \o TimeoutMsg)
                /\ reqs[r].body.response = reqs[r].response
                /\ reqs[r].body.question = reqs[r].question
                /\ reqs[r].body.sql_query = reqs[r].sql_query
                /\ Truthy(reqs[r].sql_query)
                /\ reqs[r].body.results = reqs[r].results
                /\ ~CarriesError(reqs[r].results)

C10_Witness ==
    /\ variant = "main"
    /\ \E r \in Reqs :
          /\ Logged(reqs[r], "generate_natural_response.llm_raised")
          /\ reqs[r].status = 200
          /\ reqs[r].results.kind = "list"

-----------------------------------------------------------------------------
(* Failures, the classifier and the stages of a request *)

\* the events of a request's log that record a failed LLM or database call
FailureEvents ==
    {"classification.llm_raised", "generate_sql_query.llm_raised",
     "generate_natural_response.llm_raised", "greeting_response.raised",
     "execute_sql_query.caught"}
CallFailed(rec) == \E i \in 1..Len(rec.log) : rec.log[i] \in FailureEvents

\* C11 as stated: a request of chat (main.py) or handle_classification (test2.py) in
\* which an LLM call or a database call failed and that the handler has answered was
\* answered with an HTTP 4xx/5xx error carrying a message, never with a 200 body.
C11_FailuresEndAsHttpErrors ==
    variant \in {"main", "test2"} =>
        \A r \in Reqs :
            (CallFailed(reqs[r]) /\ reqs[r].pc \in {"responded", "failed"}) =>
                /\ reqs[r].pc = "failed"
                /\ reqs[r].status \in 400..599
                /\ Len(reqs[r].detail) > 0

\* C12 as stated: whatever the LLM replies to the classifier, the label is greeting
\* or data_query, and every request whose label is not greeting runs the SQL
\* pipeline.
C12_TwoLabelsDefaultDataQuery ==
    variant = "test2" =>
        \A r \in Reqs :
            (Logged(reqs[r], "classification.ret")
                /\ ~Logged(reqs[r], "classification.llm_raised")) =>
                /\ reqs[r].label \in {Text_greeting, Text_data_query}
                /\ reqs[r].label # Text_greeting => Logged(reqs[r], "generate_sql_query.call")

\* C13: in test2.py, when the classifier's LLM call raises, classification returns
\* unknown and the request ends with HTTP 400 without a call of greeting_response,
\* generate_sql_query, execute_sql_query or generate_natural_response.
C13_ClassifierFailureIs400 ==
    variant = "test2" =>
        \A r \in Reqs :
            Logged(reqs[r], "classification.llm_raised") =>
                /\ reqs[r].label = Text_unknown
                /\ reqs[r].pc = "failed"
                /\ reqs[r].status = 400
                /\ reqs[r].detail = Text_UnknownClassification
                /\ ~Logged(reqs[r], "greeting_response.call")
                /\ ~Logged(reqs[r], "generate_sql_query.call")
                /\ ~Logged(reqs[r], "execute_sql_query.call")
                /\ ~Logged(reqs[r], "generate_natural_response.call")

C13_Witness ==
    /\ variant = "test2"
    /\ \E r \in Reqs :
          /\ Logged(reqs[r], "classification.llm_raised")
          /\ reqs[r].status = 400

\* C14: in test2.py a request classified as greeting makes one call of
\* greeting_response and no call of generate_sql_query, execute_sql_query or
\* generate_natural_response, and the body it returns has sql_query and results None
\* and the greeting reply as response.
C14_GreetingSkipsPipeline ==
    variant = "test2" =>
        \A r \in Reqs :
            reqs[r].label = Text_greeting =>
                /\ Count(reqs[r].log, "greeting_response.call") = 1
                /\ ~Logged(reqs[r], "generate_sql_query.call")
                /\ ~Logged(reqs[r], "execute_sql_query.call")
                /\ ~Logged(reqs[r], "generate_natural_response.call")
                /\ reqs[r].pc \in {"greeting_reply", "responded", "crashed"}
                /\ reqs[r].pc = "responded" =>
                      /\ Logged(reqs[r], "greeting_response.ret")
                      /\ reqs[r].status = 200
                      /\ reqs[r].body.sql_query = PyNone
                      /\ reqs[r].body.results = PyNone
                      /\ reqs[r].body.response = reqs[r].response

C14_Witness ==
    /\ variant = "test2"
    /\ \E r \in Reqs :
          /\ reqs[r].question = Question_thanks
          /\ reqs[r].label = Text_greeting
          /\ reqs[r].pc = "responded"
          /\ reqs[r].body.sql_query = PyNone

\* the machine of the classifier variant, the exits a failure takes out of it, and
\* the release of the slot once the answer is sent
StageEdges ==
    {<<"idle", "received">>, <<"received", "classifying">>,
     <<"classifying", "greeting_reply">>, <<"classifying", "generating_sql">>,
     <<"greeting_reply", "responded">>, <<"generating_sql", "executing">>,
     <<"executing", "narrating">>, <<"narrating", "responded">>}
FailureExits ==
    {<<"classifying", "failed">>, <<"generating_sql", "failed">>, <<"executing", "failed">>,
     <<"greeting_reply", "crashed">>}
Released == {<<"responded", "idle">>, <<"failed", "idle">>, <<"crashed", "idle">>}

CallEvents ==
    {"classification.call", "greeting_response.call", "generate_sql_query.call",
     "execute_sql_query.call", "generate_natural_response.call"}
CallsOf(rec) == SelectSeq(rec.log, LAMBDA e : e \in CallEvents)

\* C15: in test2.py every change of a request's stage is an edge of the machine
\* received, classifying, greeting_reply or generating_sql, executing, narrating,
\* responded (or a failure's exit from it); a request that has reached responded
\* has made the classifier's call first and then the calls of exactly one branch,
\* in order; a free slot is entered only at received.
C15_StagesFollowMachine ==
    [][variant = "test2" =>
          \A r \in Reqs :
              /\ reqs'[r].pc # reqs[r].pc =>
                    <<reqs[r].pc, reqs'[r].pc>> \in StageEdges \cup FailureExits \cup Released
              /\ reqs'[r].pc = "responded" =>
                    CallsOf(reqs'[r]) \in
                        {<<"classification.call", "greeting_response.call">>,
                         <<"classification.call", "generate_sql_query.call",
                           "execute_sql_query.call", "generate_natural_response.call">>}]_vars

C15_Witness ==
    /\ variant = "test2"
    /\ reqs[1].pc = "responded"
    /\ Logged(reqs[1], "generate_natural_response.ret")
    /\ reqs[2].pc = "responded"
    /\ Logged(reqs[2], "greeting_response.ret")

-----------------------------------------------------------------------------
(* Start-up *)

\* no request has been taken and no response produced
NothingServed == (\A r \in Reqs : reqs[r] = IdleReq) /\ health_out = PyNone /\ chat_history = <<>>

\* C16: in main.py, when OPENAI_API_KEY, DB_USER, DB_PASSWORD or DB_NAME is unset or
\* empty, the import ends in the ValueError with no LLM client and no engine created
\* and nothing is ever served; the validation fails for these four variables only,
\* so DB_HOST or DB_PORT being unset does not fail it.
C16_MissingEnvFailsStartup ==
    variant = "main" =>
        /\ (\E var \in {"OPENAI_API_KEY", "DB_USER", "DB_PASSWORD", "DB_NAME"} :
                env[var] \in {EnvUnset, EnvEmpty}) =>
              /\ phase \in {"import", "env_error"}
              /\ llm_client = PyNone
              /\ engine = PyNone
              /\ NothingServed
        /\ phase = "env_error" =>
              \E var \in {"OPENAI_API_KEY", "DB_USER", "DB_PASSWORD", "DB_NAME"} :
                  env[var] \in {EnvUnset, EnvEmpty}

C16_Witness ==
    /\ variant = "main"
    /\ env["DB_PASSWORD"] = EnvEmpty
    /\ phase = "env_error"
    /\ llm_client = PyNone

\* a chat request has been answered
Answered(rec) == rec.pc \in {"responded", "failed", "crashed"}

\* C17 as stated: a process of main.py or test2.py that starts while the database
\* refuses the connection never answers a /api/chat or a /health request.
C17_NoDatabaseNoService ==
    (variant \in {"main", "test2"} /\ ~db_up) =>
        /\ \A r \in Reqs : ~Answered(reqs[r])
        /\ health_out = PyNone

\* a step after which a request in flight finds the engine of start-up in the handle,
\* and which, taken while serving, does not assign the handle
EngineKept ==
    /\ (phase' = "serving" /\ \E r \in Reqs : reqs'[r].pc # "idle") => engine' = Engine1
    /\ phase = "serving" => engine' = engine

\* C18 as stated: while main.py or test2.py serves and a chat request is being
\* handled, the engine handle is the engine created at start-up, and no step taken
\* while serving assigns the handle.
C18_OneEngineFromStartup == [][(variant # "test") => EngineKept]_vars

\* C19 as stated: every 200 answer of main.py and test2.py has a sql_query that is
\* not None and is the text execute_sql_query was called with.
C19_Every200CarriesSql ==
    variant \in {"main", "test2"} =>
        \A r \in Reqs :
            (reqs[r].pc = "responded" /\ reqs[r].status = 200) =>
                /\ reqs[r].body.sql_query # PyNone
                /\ reqs[r].body.sql_query = reqs[r].executed

\* C19, amended: every 200 answer of a request that ran the SQL pipeline has a
\* sql_query that is a non-empty text and is, character for character, the text
\* execute_sql_query was called with; the 200 answer of a greeting (test2.py) ran no
\* SQL and has sql_query None.
C19_PipelineAnswerCarriesSql ==
    variant \in {"main", "test2"} =>
        \A r \in Reqs :
            (reqs[r].pc = "responded" /\ reqs[r].status = 200) =>
                IF reqs[r].label = Text_greeting
                THEN /\ reqs[r].body.sql_query = PyNone
                     /\ reqs[r].executed = PyNone
                     /\ ~Logged(reqs[r], "execute_sql_query.call")
                ELSE /\ reqs[r].body.sql_query.kind = "str"
                     /\ Len(reqs[r].body.sql_query.val) > 0
                     /\ reqs[r].body.sql_query = reqs[r].executed
                     /\ Count(reqs[r].log, "execute_sql_query.call") = 1

C19_Witness ==
    /\ variant = "test2"
    /\ reqs[1].pc = "responded"
    /\ reqs[1].body.sql_query = PyStr(Sql_SELECT_1)
    /\ reqs[1].executed = PyStr(Sql_SELECT_1)
    /\ Logged(reqs[1], "generate_sql_query.ret")
    /\ reqs[2].pc = "responded"
    /\ reqs[2].label = Text_greeting

\* a step that answers GET /health answers 200 {"status": "ok"} and changes nothing
\* else; from a serving state with no answer pending, the request can be answered
HealthOkAndPure ==
    /\ (health_out' # health_out /\ health_out' # PyNone) =>
          /\ health_out' = [status |-> 200, body |-> [status |-> "ok"]]
          /\ UNCHANGED <<variant, phase, env, db_up, llm_client, engine, reqs, chat_history>>
    /\ (phase = "serving" /\ variant \in {"main", "test2"} /\ health_out = PyNone) =>
          ENABLED HealthRequest

\* C20: every answer of GET /health (main.py, test2.py) is 200 {"status": "ok"} and
\* leaves the engine handle, the LLM client, the chat requests and the phase of the
\* process as they were; while the process serves, the request can be answered
\* whether the handle is None or set and whatever chat requests are in flight.
C20_HealthAlwaysOk == [][HealthOkAndPure]_vars

C20_Witness ==
    /\ variant = "main"
    /\ engine = PyNone
    /\ health_out = [status |-> 200, body |-> [status |-> "ok"]]
    /\ reqs[1].pc = "received"
    /\ reqs[2].pc = "failed"

-----------------------------------------------------------------------------
(* Execution errors, independence of requests, termination *)

\* C21 as stated: in test2.py, whenever execute_sql_query caught an exception,
\* whatever its message, ask_database ends the request with HTTP 500 and neither
\* calls the narrator nor returns a 200 body.
C21_CaughtErrorIs500 ==
    variant = "test2" =>
        \A r \in Reqs :
            Logged(reqs[r], "execute_sql_query.caught") =>
                /\ reqs[r].pc = "failed"
                /\ reqs[r].status = 500
                /\ ~Logged(reqs[r], "generate_natural_response.call")

\* a step of the pipeline touches the record of one request at most, leaves the
\* engine handle alone, keeps the message and every local a request has assigned
\* until the slot is released, and an answer is made of the request's own locals
IndependentStep ==
    /\ Cardinality({r \in Reqs : reqs'[r] # reqs[r]}) <= 1
    /\ phase = "serving" => engine' = engine
    /\ \A r \in Reqs :
          (reqs[r].pc # "idle" /\ reqs'[r].pc # "idle") =>
              /\ reqs'[r].question = reqs[r].question
              /\ reqs[r].sql_query # PyNone => reqs'[r].sql_query = reqs[r].sql_query
              /\ reqs[r].executed # PyNone => reqs'[r].executed = reqs[r].executed
              /\ reqs[r].results # PyNone => reqs'[r].results = reqs[r].results
    /\ \A r \in Reqs :
          reqs'[r].executed # PyNone => reqs'[r].executed = reqs'[r].sql_query
    /\ \A r \in Reqs :
          reqs'[r].pc = "responded" =>
              /\ reqs'[r].body.question = reqs'[r].question
              /\ reqs'[r].body.sql_query =
                    (IF reqs'[r].label = Text_greeting THEN PyNone ELSE reqs'[r].sql_query)
              /\ reqs'[r].body.results = reqs'[r].results
              /\ reqs'[r].body.response = reqs'[r].response

\* C22: in main.py and test2.py, however the steps of two chat requests interleave,
\* each step changes one request only, the SQL text a request executes is the text
\* its own generator call returned, the fields of its answer are its own message,
\* SQL, results and response, and no step of request handling writes the engine
\* handle.
C22_RequestsIndependent == [][(variant # "test") => IndependentStep]_vars

C22_Witness ==
    /\ variant = "main"
    /\ reqs[1].pc = "responded"
    /\ reqs[2].pc = "responded"
    /\ reqs[1].question # reqs[2].question
    /\ reqs[1].body.sql_query = PyStr(Sql_SELECT_1)
    /\ reqs[2].body.sql_query = PyStr(Sql_UPDATE)
    /\ reqs[1].body.question = Question_hi
    /\ reqs[2].body.question = Question_thanks

\* the outcomes that end a request
Terminal == {"responded", "failed", "crashed", "rerun", "rendered"}
\* how far a request has come
StageRank(pc) ==
    CASE pc = "idle" -> 0
      [] pc = "received" -> 1
      [] pc = "classifying" -> 2
      [] pc \in {"greeting_reply", "generating_sql"} -> 3
      [] pc = "executing" -> 4
      [] pc = "narrating" -> 5
      [] OTHER -> 6

\* whenever the record of a request in flight changes, the request has moved on
MovesOn ==
    \A r \in Reqs :
        (reqs[r].pc \notin Terminal /\ reqs'[r] # reqs[r]) =>
            StageRank(reqs'[r].pc) > StageRank(reqs[r].pc)

\* C23: provided every outbound call returns or raises, every request that has been
\* received reaches a terminal outcome (an answer, an HTTP error, an unhandled
\* exception); no step of a handler leaves its request in the stage it was in.
C23_RequestsTerminate ==
    /\ \A r \in Reqs : (reqs[r].pc = "received") ~> (reqs[r].pc \in Terminal)
    /\ [][MovesOn]_vars

C23_Witness ==
    /\ variant = "test2"
    /\ reqs[1].pc = "crashed"
    /\ reqs[2].pc = "failed"
    /\ Logged(reqs[2], "execute_sql_query.caught")

-----------------------------------------------------------------------------
(* The executor's connection *)

\* C24: on every path of execute_sql_query (main.py, test2.py) a connection that was
\* opened is closed, once and as the last driver call, before the function returns;
\* commit is called at most once, only for a text that does not begin with SELECT
\* and only after execute returned without raising.
C24_ConnectionScopedCommitOnWrite ==
    ex_out.done =>
        /\ ex_out.ops[1] = "connect"
        /\ Count(ex_out.ops, "connect") = 1
        /\ IF ex_db.connect = NoExc
           THEN /\ Count(ex_out.ops, "close") = 1
                /\ ex_out.ops[Len(ex_out.ops)] = "close"
           ELSE ex_out.ops = <<"connect">>
        /\ Count(ex_out.ops, "commit") <= 1
        /\ Count(ex_out.ops, "commit") = 1 =>
              /\ ~BeginsWithSelect(ex_sql)
              /\ ex_db.connect = NoExc
              /\ ex_db.execute = NoExc
              /\ Before(ex_out.ops, "execute", "commit")
        /\ (ex_db.connect = NoExc /\ ex_db.execute = NoExc /\ ~BeginsWithSelect(ex_sql)) =>
              Count(ex_out.ops, "commit") = 1

C24_Witness ==
    /\ ex_out.done
    /\ ex_sql = Sql_UPDATE
    /\ ex_db.connect = NoExc
    /\ ex_db.execute = NoExc
    /\ ex_db.commit # NoExc
    /\ CarriesError(ex_out.ret)
    /\ ex_out.ops = <<"connect", "execute", "commit", "close">>

-----------------------------------------------------------------------------
(* The transcript of the UI *)

\* a run of the script ends now for request r, with st.rerun() or without a Send
Reruns(r) == reqs[r].pc # "rerun" /\ reqs'[r].pc = "rerun"
Renders(r) == reqs[r].pc # "rendered" /\ reqs'[r].pc = "rendered"

\* what a step may do to the transcript
TranscriptStep ==
    /\ Len(chat_history') >= Len(chat_history)
    /\ SubSeq(chat_history', 1, Len(chat_history)) = chat_history
    /\ chat_history' # chat_history => \E r \in Reqs : Reruns(r)
    /\ \A r \in Reqs :
          /\ Reruns(r) =>
                /\ Len(chat_history') = Len(chat_history) + 1
                /\ chat_history'[Len(chat_history')].user = reqs'[r].question
                /\ Strip(reqs'[r].question) # <<>>
                /\ Count(reqs'[r].log, "generate_sql_query.call") = 1
          /\ Renders(r) =>
                /\ chat_history' = chat_history
                /\ Strip(reqs'[r].question) = <<>>
                /\ reqs'[r].log = <<"received">>
          /\ Strip(reqs'[r].question) = <<>> => reqs'[r].pc \in {"idle", "received", "rendered"}
          /\ (reqs[r].pc \notin {"idle", "rerun", "rendered"} /\ reqs'[r].pc # reqs[r].pc) =>
                reqs'[r].pc \in {"generating_sql", "executing", "narrating", "rerun", "rendered"}

\* C25: in test.py every step leaves the entries the transcript already has as they
\* are and in place; the run of a Send with a non-blank input ends having appended
\* exactly one entry, for that input, whether it ends with the answer, an execution
\* error or a generation error; the run of a Send with a blank input appends nothing
\* and calls neither the LLM nor the database; nothing else appends.
C25_TranscriptAppendOnly == [][(variant = "test") => TranscriptStep]_vars

C25_Witness ==
    /\ variant = "test"
    /\ Len(chat_history) = 1
    /\ chat_history[1].sql_query = PyNone
    /\ \E r \in Reqs : reqs[r].pc = "rendered"

IsErrorText(s) == StartsWith(s, Text_IEncounteredAnError) \/ StartsWith(s, Text_ICouldntGenerate)

\* generate_sql_query returned a text to execute and execute_sql_query ran it without
\* catching an exception
GeneratedAndExecuted(rec) ==
    /\ Logged(rec, "generate_sql_query.ret")
    /\ ~Logged(rec, "generate_sql_query.llm_raised")
    /\ Truthy(rec.sql_query)
    /\ Logged(rec, "execute_sql_query.ret")
    /\ ~Logged(rec, "execute_sql_query.caught")

\* C26 as stated: in test.py the entry appended for a question holds the narrator's
\* answer whenever generation and execution both succeeded, whatever the kind of the
\* statement, and an error message only when one of them failed.
C26_EntryHoldsAnswerOnSuccess ==
    variant = "test" =>
        \A r \in Reqs :
            reqs[r].pc = "rerun" =>
                IF GeneratedAndExecuted(reqs[r])
                THEN /\ Logged(reqs[r], "generate_natural_response.ret")
                     /\ reqs[r].body.assistant = reqs[r].response
                     /\ ~IsErrorText(reqs[r].body.assistant.val)
                ELSE IsErrorText(reqs[r].body.assistant.val)

-----------------------------------------------------------------------------
(* Empty replies, the missing engine, the greeting reply *)

\* a reply that is blank, or fences only: an opening fence, tagged sql or not, with
\* nothing after it but white space and further fences
FencesOnly(content) ==
    LET s == Strip(content) IN
    \/ s = <<>>
    \/ /\ StartsWith(s, Fence)
       /\ Strip(Remove(SubSeq(s, Len(OpeningFence(s)) + 1, Len(s)), Fence)) = <<>>

\* the handler of the variant, resumed with the generator's reply
AfterGenerate(llm) ==
    LET rec == [IdleReq EXCEPT !.pc = "generating_sql"] IN
    IF variant = "main" THEN chat_after_generate(rec, llm)
    ELSE ask_database_after_generate(rec, llm)

C28_NullEngineIs500 ==
    (variant = "main" /\ phase = "serving" /\ ~Truthy(engine)) =>
        \A r \in Reqs :
            reqs[r].pc \notin {"idle", "received"} =>
                /\ reqs[r].pc = "failed"
                /\ reqs[r].status = 500
                /\ reqs[r].detail = Text_DbNotInitializedMain
                /\ reqs[r].log = <<"received">>

C28_Witness ==
    /\ variant = "main"
    /\ ~Truthy(engine)
    /\ reqs[1].pc = "failed"
    /\ reqs[1].status = 500
    /\ reqs[1].log = <<"received">>

\* C29 as stated: in test2.py an exception raised by the LLM call of greeting_response
\* is caught and converted: it never leaves handle_classification uncaught, the
\* request ends with a reply or an HTTPException of the handler.
C29_GreetingFailureIsCaught ==
    variant = "test2" =>
        \A r \in Reqs :
            Logged(reqs[r], "greeting_response.raised") =>
                /\ reqs[r].pc \in {"responded", "failed"}
                /\ reqs[r].status \in {200, 400, 500}

=============================================================================
